---- MODULE Spec2Model ----
(***************************************************************************)
(* tsaugur: the model registry (tsaugur/models/__init__.py) and the        *)
(* Holt-Winters wrapper (tsaugur/models/holt_winters.py).                  *)
(*                                                                         *)
(* Python values are written as follows: a dict and an instance's          *)
(* attribute table are functions on the keys assigned so far; the grid's   *)
(* values True, False, "log", "add", "mul" are the strings "True",         *)
(* "False", "log", "add", "mul" (a list then holds values of one kind); a  *)
(* float is a record [k, v] with k "num" (the finite value v), "inf"       *)
(* (+infinity) or "nan" (not-a-number). Positions in a list count from 1.  *)
(*                                                                         *)
(* The statsmodels calls and the metric are external: what they do for a   *)
(* series and a candidate (raise, or return a score) is the variable env,  *)
(* fixed by Init and never changed, so the external library is             *)
(* deterministic and every run of the model is a run of the code against   *)
(* one possible behaviour of that library.                                 *)
(***************************************************************************)
EXTENDS Integers, Sequences, FiniteSets, TLC

VARIABLES heap, handle, env, pc, frame, scores, best, pre, result

vars == <<heap, handle, env, pc, frame, scores, best, pre, result>>

(* ------------------------------ bounds --------------------------------- *)

\* finite scores are 0..MaxScore
MaxScore == 1
\* predict horizons are 1..MaxHorizon
MaxHorizon == 1

(* ------------------------------ floats --------------------------------- *)

Num(n) == [k |-> "num", v |-> n]
\* np.inf
Inf == [k |-> "inf", v |-> 0]
NaN == [k |-> "nan", v |-> 0]
\* what constructing, fitting, forecasting and scoring one candidate does
\* when it does not return a score
Raise == [k |-> "raise", v |-> 0]

FiniteScores == {Num(n) : n \in 0..MaxScore}
Scores == FiniteScores \cup {Inf, NaN}
Outcomes == Scores \cup {Raise}

\* a < b on floats; every comparison with NaN is false
lt(a, b) ==
  /\ a.k # "nan"
  /\ b.k # "nan"
  /\ \/ a.k = "num" /\ b.k = "num" /\ a.v < b.v
     \/ a.k = "num" /\ b.k = "inf"

(* ------------------------------ dicts ---------------------------------- *)

\* d[k] = v
set_item(d, k, v) == [a \in DOMAIN d \cup {k} |-> IF a = k THEN v ELSE d[a]]

\* d.update(e)
update(d, e) == [a \in DOMAIN d \cup DOMAIN e |-> IF a \in DOMAIN e THEN e[a] ELSE d[a]]

\* the part of d on the keys ks
restrict(d, ks) == [a \in ks |-> d[a]]

\* d without the keys ks
Without(d, ks) == restrict(d, DOMAIN d \ ks)

(* --------------------------- the registry ------------------------------ *)

MODEL_KEY_SARIMA == "sarima"
MODEL_KEY_FOURIER_SARIMA == "fourier_sarima"
MODEL_KEY_HOLT_WINTERS == "holt_winters"

\* BaseModel.__init__: an instance starts untuned, with no period, series
\* or fitted model
BaseModel(cls) == [cls |-> cls, params |-> [tuned |-> FALSE]]

\* the instances the module creates when it is loaded, in creation order;
\* a reference to an instance is its position here
LoadedInstances == << BaseModel("Sarima"), BaseModel("FourierSarima"), BaseModel("HoltWinters") >>

\* MODELS: key -> reference
MODELS ==
  [k \in {MODEL_KEY_SARIMA, MODEL_KEY_FOURIER_SARIMA, MODEL_KEY_HOLT_WINTERS} |->
     CASE k = MODEL_KEY_SARIMA -> 1
       [] k = MODEL_KEY_FOURIER_SARIMA -> 2
       [] k = MODEL_KEY_HOLT_WINTERS -> 3]

\* create_model(model_key) on the heap h: the heap after the call and what
\* the call gives, a reference or a raised KeyError
\* (a registry of classes in its place: every call makes an instance)
create_model_new(h, model_key) ==
  IF model_key \in DOMAIN MODELS
    THEN [heap |-> Append(h, BaseModel(h[MODELS[model_key]].cls)), status |-> "ok", ref |-> Len(h) + 1]
    ELSE [heap |-> h, status |-> "KeyError", ref |-> 0]

create_model(h, model_key) ==
  IF model_key \in DOMAIN MODELS
    THEN [heap |-> h, status |-> "ok", ref |-> MODELS[model_key]]
    ELSE [heap |-> h, status |-> "KeyError", ref |-> 0]

(* ------------------------------ the grid ------------------------------- *)

\* params_grid, as its items() in insertion order
params_grid ==
  << <<"trend", <<"add", "mul">> >>,
     <<"seasonal", <<"add", "mul">> >>,
     <<"damped", <<"True", "False">> >>,
     <<"use_boxcox", <<"True", "False", "log">> >>,
     <<"remove_bias", <<"True", "False">> >> >>

\* zip(*params_grid.items())
params_keys == [i \in 1..Len(params_grid) |-> params_grid[i][1]]
params_values == [i \in 1..Len(params_grid) |-> params_grid[i][2]]

GridKeys == {params_keys[i] : i \in 1..Len(params_keys)}

\* itertools.product(*lists): the tuples in the order of nested for loops,
\* the last list varying fastest. after[k] is the number of tuples the
\* lists after the k-th make, which is how often the k-th list's element
\* repeats before the next one is taken
product(lists) ==
  LET n == Len(lists)
      after[k \in 0..n] == IF k = n THEN 1 ELSE Len(lists[k + 1]) * after[k + 1]
  IN [t \in 1..after[0] |->
        [k \in 1..n |-> lists[k][(((t - 1) \div after[k]) % Len(lists[k])) + 1]]]

\* dict(zip(keys, v))
dict_zip(keys, v) ==
  [a \in {keys[i] : i \in 1..Len(keys)} |-> v[CHOOSE i \in 1..Len(keys) : keys[i] = a]]

params_permutations ==
  LET tuples == product(params_values)
  IN [i \in 1..Len(tuples) |-> dict_zip(params_keys, tuples[i])]

\* the number of candidates
N == Len(params_permutations)

(* ------------------------- external collaborators ---------------------- *)

\* data_utils.period_to_int
period_to_int(s) ==
  CASE s \in {"annual", "a"} -> 1
    [] s \in {"quarterly", "q"} -> 4
    [] s \in {"daily", "d"} -> 7
    [] s \in {"monthly", "m"} -> 12
    [] s \in {"hourly", "h"} -> 24
    [] s \in {"weekly", "w"} -> 52

\* a period argument is an int or a str
IntPeriod(n) == [str |-> FALSE, n |-> n, s |-> ""]
StrPeriod(s) == [str |-> TRUE, n |-> 0, s |-> s]

\* ExponentialSmoothing(endog, seasonal_periods=, trend=, seasonal=, damped=)
\*   .fit(use_boxcox=, remove_bias=): the fitted model is what it was fitted
\* on and with
ExponentialSmoothingFit(endog, seasonal_periods, trend, seasonal, damped, use_boxcox, remove_bias) ==
  [endog |-> endog, seasonal_periods |-> seasonal_periods, trend |-> trend,
   seasonal |-> seasonal, damped |-> damped, use_boxcox |-> use_boxcox,
   remove_bias |-> remove_bias]

\* model.forecast(horizon).values: horizon values forecast from that model
forecast(model, horizon) == [model |-> model, steps |-> horizon]

(* ------------------------------ selection ------------------------------ *)

\* numpy's _replace_nan(a, np.inf)
replace_nan(a) == [i \in 1..Len(a) |-> IF a[i].k = "nan" THEN Inf ELSE a[i]]

\* np.argmin's scan over a: st is the position looked at next and the
\* position of the smallest element so far, which a later element replaces
\* only when it is strictly smaller
RECURSIVE argmin_scan(_, _)
argmin_scan(a, st) ==
  IF st.i > Len(a)
    THEN st.b
    ELSE argmin_scan(a, [i |-> st.i + 1, b |-> IF lt(a[st.i], a[st.b]) THEN st.i ELSE st.b])

\* (a scan that lets an equal later element replace the best)
RECURSIVE argmin_scan_last(_, _)
argmin_scan_last(a, st) ==
  IF st.i > Len(a)
    THEN st.b
    ELSE argmin_scan_last(a, [i |-> st.i + 1, b |-> IF lt(a[st.b], a[st.i]) THEN st.b ELSE st.i])

argmin_last(a) == argmin_scan_last(a, [i |-> 2, b |-> 1])

\* (np.argmax in its place)
RECURSIVE argmax_scan(_, _)
argmax_scan(a, st) ==
  IF st.i > Len(a)
    THEN st.b
    ELSE argmax_scan(a, [i |-> st.i + 1, b |-> IF lt(a[st.b], a[st.i]) THEN st.i ELSE st.b])

argmax(a) == argmax_scan(a, [i |-> 2, b |-> 1])

argmin(a) == argmin_scan(a, [i |-> 2, b |-> 1])

\* np.nanargmin(a): NaN counts as +infinity; an all-NaN list raises
\* (np.argmin in its place: the first NaN, when there is one, is the minimum)
nanargmin_plain(a) ==
  [status |-> "ok",
   index |-> IF \E i \in 1..Len(a) : a[i].k = "nan"
               THEN CHOOSE i \in 1..Len(a) : a[i].k = "nan" /\ \A j \in 1..(i - 1) : a[j].k # "nan"
               ELSE argmin(a)]

nanargmin(a) ==
  IF \A i \in 1..Len(a) : a[i].k = "nan"
    THEN [status |-> "ValueError", index |-> 0]
    ELSE [status |-> "ok", index |-> argmin(replace_nan(a))]

(* ------------------------- inputs and behaviours ----------------------- *)

Callers == {"a", "b"}
\* the keys callers ask the registry for: the three it has and one it has not
Keys == {MODEL_KEY_SARIMA, MODEL_KEY_FOURIER_SARIMA, MODEL_KEY_HOLT_WINTERS, "prophet"}
\* the period arguments: an int and an alias
Periods == {IntPeriod(12), StrPeriod("w")}
\* the metric arguments: names get_metric knows (what it does with another
\* name is not part of holt_winters.py)
MetricNames == {"smape"}
Horizons == 1..MaxHorizon

\* what the external library does for the candidates of one series: d for
\* every candidate, except a for the candidate at position p (p = 0: none)
world(d, p, a) == [d |-> d, p |-> p, a |-> a]

\* what it does for candidate i
outcome(w, i) == IF i = w.p THEN w.a ELSE w.d

\* every behaviour in which at most one candidate differs from the others
TuneWorlds ==
  {world(d, 0, d) : d \in Outcomes}
    \cup {w \in {world(d, p, a) : d \in Outcomes, p \in 1..N, a \in Outcomes} : w.a # w.d}

\* the behaviours the tuning specification runs against: one series, with
\* any of these behaviours
TuneEnvs ==
  {[y \in {"y1"} |-> w] : w \in TuneWorlds}

\* the behaviours the life-cycle specification runs against: the first
\* series has one candidate that succeeds, the last; for the second every
\* candidate fails or every score is NaN
LifeEnvs ==
  {[y \in {"y1", "y2"} |-> IF y = "y1" THEN world(Raise, N, Num(0)) ELSE w] :
     w \in {world(Raise, 0, Raise), world(NaN, 0, NaN)}}

(* ----------------------- the loop over candidates ---------------------- *)

\* lines 47-57 for one candidate whose construction, fit, forecast and
\* metric do o: the score is appended, or the failure is caught and np.inf
\* is appended
\* (with "except: pass", and with np.nan appended, in its place)
try_candidate_pass(sc, o) == IF o.k = "raise" THEN sc ELSE Append(sc, o)

try_candidate_nan(sc, o) == IF o.k = "raise" THEN Append(sc, NaN) ELSE Append(sc, o)

try_candidate(sc, o) == IF o.k = "raise" THEN Append(sc, Inf) ELSE Append(sc, o)

\* the for loop, lines 46-57: st is the position of the next candidate
\* and the scores appended so far
RECURSIVE score_loop(_, _)
score_loop(w, st) ==
  IF st.i > N
    THEN st.scores
    ELSE score_loop(w, [i |-> st.i + 1, scores |-> try_candidate(st.scores, outcome(w, st.i))])

(* ------------------------- fit's building blocks ----------------------- *)

\* self.period = data_utils.period_to_int(period) if type(period) == str else period
resolve_period(period) == IF period.str THEN period_to_int(period.s) ELSE period.n

\* lines 77-79
store_series(self, y) ==
  set_item(set_item(set_item(self, "y", y), "name", "Holt-Winters Exponential Smoothing"),
           "key", "holt_winters")

\* lines 60-61
merge_best(params, best_params) == set_item(update(params, best_params), "tuned", TRUE)

\* lines 81-83: the model fitted on the whole of y
\* (with the first candidate in place of self.params)
refit_first(self, y) ==
  LET p == params_permutations[1]
  IN ExponentialSmoothingFit(y, self.period, p["trend"], p["seasonal"], p["damped"],
                             p["use_boxcox"], p["remove_bias"])

refit(self, y) ==
  ExponentialSmoothingFit(y, self.period, self.params["trend"], self.params["seasonal"],
                          self.params["damped"], self.params["use_boxcox"],
                          self.params["remove_bias"])

(* ------------------------------- states -------------------------------- *)

\* the state after the module is loaded: no caller holds a model
Init ==
  /\ heap = LoadedInstances
  /\ handle = <<>>
  /\ env \in LifeEnvs
  /\ pc = "idle"
  /\ frame = [op |-> "none"]
  /\ scores = <<>>
  /\ best = 0
  /\ pre = [cls |-> "none"]
  /\ result = [op |-> "none"]

\* the Holt-Winters instance after a fit on a series "y0" that selected the
\* first candidate and returned
FittedBefore ==
  LET o1 == store_series(BaseModel("HoltWinters"), "y0")
      o2 == set_item(o1, "period", resolve_period(IntPeriod(12)))
      o3 == set_item(o2, "params", merge_best(o2.params, params_permutations[1]))
  IN set_item(o3, "model", refit(o3, "y0"))

\* the state after one caller has asked for the Holt-Winters model, which
\* is fresh or was fitted before
InitTune ==
  /\ heap \in {LoadedInstances,
               [LoadedInstances EXCEPT ![MODELS[MODEL_KEY_HOLT_WINTERS]] = FittedBefore]}
  /\ handle = [c \in {"a"} |-> [key |-> MODEL_KEY_HOLT_WINTERS, ref |-> MODELS[MODEL_KEY_HOLT_WINTERS]]]
  /\ env \in TuneEnvs
  /\ pc = "idle"
  /\ frame = [op |-> "none"]
  /\ scores = <<>>
  /\ best = 0
  /\ pre = [cls |-> "none"]
  /\ result = [op |-> "none"]

\* the instance a call in progress works on
self == heap[frame.self]

holds_holt_winters(c) == c \in DOMAIN handle /\ heap[handle[c].ref].cls = "HoltWinters"

(* ------------------------------- actions ------------------------------- *)

\* caller c: m = create_model(model_key)
CreateModel(c, model_key) ==
  /\ pc = "idle"
  /\ LET r == create_model(heap, model_key)
     IN /\ heap' = r.heap
        /\ handle' = IF r.status = "ok"
                       THEN set_item(handle, c, [key |-> model_key, ref |-> r.ref])
                       ELSE handle
        /\ result' = [op |-> "create_model", key |-> model_key, status |-> r.status]
  /\ UNCHANGED <<env, pc, frame, scores, best, pre>>

\* caller c: m.fit(y, period, metric=metric), lines 77-80 up to the call of
\* _tune
FitBegin(c, y, period, metric) ==
  /\ pc = "idle"
  /\ holds_holt_winters(c)
  /\ LET ref == handle[c].ref
         obj == store_series(heap[ref], y)
     IN /\ heap' = [heap EXCEPT ![ref] = obj]
        /\ frame' = [op |-> "fit", caller |-> c, self |-> ref, y |-> y, period |-> period,
                     metric |-> metric, status |-> "running"]
        /\ pre' = obj
  /\ pc' = "tune"
  /\ scores' = <<>>
  /\ best' = 0
  /\ result' = [op |-> "fit", status |-> "running"]
  /\ UNCHANGED <<handle, env>>

\* _tune, lines 30-33: the period is stored; the split and the metric
\* lookup leave the instance alone
\* (with tuned set at the top of _tune, and with the fitted model dropped
\* there)
TuneBegin_tuned ==
  /\ pc = "tune"
  /\ heap' = [heap EXCEPT ![frame.self] =
                set_item(set_item(@, "period", resolve_period(frame.period)),
                         "params", set_item(@.params, "tuned", TRUE))]
  /\ pc' = "loop"
  /\ UNCHANGED <<handle, env, frame, scores, best, pre, result>>

TuneBegin_reset ==
  /\ pc = "tune"
  /\ heap' = [heap EXCEPT ![frame.self] =
                set_item(Without(@, {"model"}), "period", resolve_period(frame.period))]
  /\ pc' = "loop"
  /\ UNCHANGED <<handle, env, frame, scores, best, pre, result>>

TuneBegin ==
  /\ pc = "tune"
  /\ heap' = [heap EXCEPT ![frame.self] = set_item(@, "period", resolve_period(frame.period))]
  /\ pc' = "loop"
  /\ UNCHANGED <<handle, env, frame, scores, best, pre, result>>

\* _tune, lines 45-57: every candidate is tried, none raises out of the loop
TuneLoop ==
  /\ pc = "loop"
  /\ scores' = score_loop(env[frame.y], [i |-> 1, scores |-> <<>>])
  /\ pc' = "select"
  /\ UNCHANGED <<heap, handle, env, frame, best, pre, result>>

\* _tune, lines 59-61: nanargmin raises out of _tune and fit, or the best
\* candidate is merged into params and _tune returns
TuneSelect ==
  /\ pc = "select"
  /\ LET r == nanargmin(scores)
     IN IF r.status = "ok"
          THEN /\ best' = r.index
               /\ heap' = [heap EXCEPT ![frame.self] =
                             set_item(@, "params", merge_best(@.params, params_permutations[r.index]))]
               /\ pc' = "refit"
               /\ UNCHANGED <<scores, frame, result>>
          ELSE /\ pc' = "idle"
               /\ scores' = <<>>
               /\ frame' = [frame EXCEPT !.status = r.status]
               /\ result' = [op |-> "fit", status |-> r.status]
               /\ UNCHANGED <<heap, best>>
  /\ UNCHANGED <<handle, env, pre>>

\* fit, lines 81-83: the external fit on the whole series returns and the
\* model is stored, or it raises out of fit
Refit ==
  /\ pc = "refit"
  /\ \E ok \in BOOLEAN :
       IF ok
         THEN /\ heap' = [heap EXCEPT ![frame.self] = set_item(@, "model", refit(@, frame.y))]
              /\ frame' = [frame EXCEPT !.status = "ok"]
              /\ result' = [op |-> "fit", status |-> "ok"]
         ELSE /\ heap' = heap
              /\ frame' = [frame EXCEPT !.status = "RefitError"]
              /\ result' = [op |-> "fit", status |-> "RefitError"]
  /\ pc' = "idle"
  /\ scores' = <<>>
  /\ best' = 0
  /\ UNCHANGED <<handle, env, pre>>

\* caller c: m.predict(horizon), line 92
Predict(c, horizon) ==
  /\ pc = "idle"
  /\ holds_holt_winters(c)
  /\ LET obj == heap[handle[c].ref]
     IN result' = IF "model" \in DOMAIN obj
                    THEN [op |-> "predict", caller |-> c, status |-> "ok",
                          value |-> forecast(obj.model, horizon)]
                    ELSE [op |-> "predict", caller |-> c, status |-> "AttributeError"]
  /\ UNCHANGED <<heap, handle, env, pc, frame, scores, best, pre>>

Fit ==
  \/ \E c \in Callers, y \in DOMAIN env, period \in Periods, metric \in MetricNames :
       FitBegin(c, y, period, metric)
  \/ TuneBegin
  \/ TuneLoop
  \/ TuneSelect
  \/ Refit

NextTune == Fit

Next ==
  \/ \E c \in Callers, model_key \in Keys : CreateModel(c, model_key)
  \/ Fit
  \/ \E c \in Callers, horizon \in Horizons : Predict(c, horizon)

Spec == Init /\ [][Next]_vars

SpecTune == InitTune /\ [][NextTune]_vars

(* ------------------------- what the claims use ------------------------ *)

RangeOf(f) == {f[i] : i \in DOMAIN f}

\* the scores the claims expect for the behaviour w: +infinity for a
\* candidate that fails, else the score the metric returns
ExpectedScores(w) == [i \in 1..N |-> IF outcome(w, i) = Raise THEN Inf ELSE outcome(w, i)]

\* b is the position of the first smallest element among those of a that are
\* not NaN
FirstMinimum(a, b) ==
  /\ b \in 1..Len(a)
  /\ a[b].k # "nan"
  /\ \A j \in 1..Len(a) : a[j].k # "nan" => ~lt(a[j], a[b])
  /\ \A j \in 1..(b - 1) : a[j].k # "nan" => a[j] # a[b]

\* the position of value x in the list vs
PositionIn(vs, x) == CHOOSE i \in 1..Len(vs) : vs[i] = x

\* candidate c comes before candidate d in the cartesian product of the
\* grid's lists, taken key by key in the order the grid lists them
ComesBefore(c, d) ==
  \E k \in 1..Len(params_grid) :
     /\ \A m \in 1..(k - 1) : c[params_grid[m][1]] = d[params_grid[m][1]]
     /\ PositionIn(params_grid[k][2], c[params_grid[k][1]])
          < PositionIn(params_grid[k][2], d[params_grid[k][1]])

\* the 48 candidates are the cartesian product, in its order
EnumerationOrder ==
  /\ N = 48
  /\ \A i \in 1..N : \A k \in 1..Len(params_grid) :
        params_permutations[i][params_grid[k][1]] \in RangeOf(params_grid[k][2])
  /\ \A i \in 1..N : \A j \in (i + 1)..N :
        ComesBefore(params_permutations[i], params_permutations[j])

\* the five grid values of the instance o
GridPart(o) == restrict(o.params, GridKeys)

\* _tune has returned and fit has not yet gone on
TuneReturned == pc = "refit"

AllFail(w) == \A i \in 1..N : outcome(w, i) = Raise
AllNaN(w) == \A i \in 1..N : outcome(w, i) = NaN
OnlySucceeds(w, i) == outcome(w, i) # Raise /\ \A j \in 1..N \ {i} : outcome(w, j) = Raise

\* the model the most recent fit call is to store: fitted on the whole of
\* its series, with its period and the candidate its tuning selects
ExpectedModel ==
  LET sel == params_permutations[nanargmin(ExpectedScores(env[frame.y])).index]
  IN [endog |-> frame.y,
      seasonal_periods |-> IF frame.period.str THEN period_to_int(frame.period.s) ELSE frame.period.n,
      trend |-> sel["trend"], seasonal |-> sel["seasonal"], damped |-> sel["damped"],
      use_boxcox |-> sel["use_boxcox"], remove_bias |-> sel["remove_bias"]]

(* -------------------------------- claims ------------------------------- *)

\* C1: when every score is a finite number or +infinity, _tune selects and
\* merges the candidate with the minimum score, the first of them in the
\* enumeration order (the cartesian product of the grid's lists) on a tie.
C1_SelectsFirstMinimum ==
  (TuneReturned /\ \A i \in 1..N : scores[i].k \in {"num", "inf"}) =>
     /\ scores = ExpectedScores(env[frame.y])
     /\ FirstMinimum(scores, best)
     /\ GridPart(self) = params_permutations[best]
     /\ EnumerationOrder

\* a tie for the minimum that the first candidate is not part of
C1_Witness ==
  /\ TuneReturned
  /\ \A i \in 1..N : scores[i].k \in {"num", "inf"}
  /\ best > 1
  /\ \E j \in (best + 1)..N : scores[j] = scores[best]

\* C2: a candidate's failure is recorded as +infinity and does not leave the
\* loop: after the loop there is one score per candidate, in candidate
\* order, and a fit that raised did so at nanargmin or at the final fit.
C2_FailuresScoredInfinite ==
  /\ pc \in {"select", "refit"} =>
       /\ Len(scores) = N
       /\ \A i \in 1..N :
            scores[i] = IF outcome(env[frame.y], i) = Raise THEN Inf ELSE outcome(env[frame.y], i)
  /\ (frame.op = "fit" /\ AllFail(env[frame.y])) => frame.status \in {"running", "ok", "RefitError"}
  /\ frame.op = "fit" => frame.status \in {"running", "ok", "ValueError", "RefitError"}

\* a candidate failed and a later one was scored
C2_Witness ==
  /\ pc = "select"
  /\ \E i \in 1..N : \E j \in (i + 1)..N :
       /\ outcome(env[frame.y], i) = Raise
       /\ scores[i] = Inf
       /\ scores[j].k = "num"

\* C3 as claimed: the only candidate that succeeds is selected, whatever
\* its score.
C3_Original ==
  \A i \in 1..N :
     (TuneReturned /\ OnlySucceeds(env[frame.y], i)) =>
        best = i /\ GridPart(self) = params_permutations[i]

\* C3 as amended: the only candidate that succeeds is selected when its
\* score is a finite number, whatever that number and its position.
C3_OnlyFiniteSuccessSelected ==
  \A i \in 1..N :
     (TuneReturned /\ OnlySucceeds(env[frame.y], i) /\ outcome(env[frame.y], i).k = "num") =>
        best = i /\ GridPart(self) = params_permutations[i]

\* the only success is the last candidate, with the largest score
C3_Witness ==
  /\ TuneReturned
  /\ OnlySucceeds(env[frame.y], N)
  /\ outcome(env[frame.y], N) = Num(MaxScore)
  /\ best = N

\* C4: when _tune returns, params holds the five grid keys with the values
\* of the selected candidate and tuned is True; an instance is tuned only
\* with the five grid values of one candidate in its params.
C4_TunedOnlyWithBest ==
  /\ TuneReturned =>
       /\ Len(scores) = N
       /\ best = nanargmin(scores).index
       /\ GridKeys \subseteq DOMAIN self.params
       /\ GridPart(self) = params_permutations[best]
       /\ self.params["tuned"] = TRUE
  /\ \A r \in 1..Len(heap) :
       heap[r].params["tuned"] =>
          /\ GridKeys \subseteq DOMAIN heap[r].params
          /\ GridPart(heap[r]) \in RangeOf(params_permutations)

\* _tune returns for an instance that was not tuned before
C4_Witness ==
  /\ TuneReturned
  /\ ~pre.params["tuned"]
  /\ self.params["tuned"]
  /\ best > 1

\* C5: when fit returns, the stored model is the one fitted on the whole
\* input series with the call's period and the candidate its tuning
\* selected, and the stored series is the input series.
C5_RefitOnWholeSeries ==
  (pc = "idle" /\ frame.op = "fit" /\ frame.status = "ok") =>
     /\ heap[frame.self].y = frame.y
     /\ heap[frame.self].model = ExpectedModel
     /\ heap[frame.self].model.endog = frame.y

\* fit returned for a period given by alias, having selected the last
\* candidate
C5_Witness ==
  /\ pc = "idle"
  /\ result = [op |-> "fit", status |-> "ok"]
  /\ frame.period.str
  /\ heap[frame.self].model.seasonal_periods = 52
  /\ GridPart(heap[frame.self]) = params_permutations[N]

\* C6 as claimed: after a fit call, returned or raised, the stored series,
\* period, hyperparameters and model are those of that call, and predict
\* forecasts from that call's model.
C6_Original ==
  (pc = "idle" /\ frame.op = "fit") =>
     /\ heap[frame.self].y = frame.y
     /\ "model" \in DOMAIN heap[frame.self] =>
          /\ frame.status = "ok"
          /\ heap[frame.self].model = ExpectedModel
     /\ (result.op = "predict" /\ result.status = "ok") =>
          /\ frame.status = "ok"
          /\ result.value.model = ExpectedModel

\* C7: when every candidate fails, _tune raises nothing, selects the first
\* candidate and sets tuned.
C7_AllFailSelectsFirst ==
  (frame.op = "fit" /\ AllFail(env[frame.y])) =>
     /\ frame.status # "ValueError"
     /\ pc \notin {"idle", "refit"} => frame.status = "running"
     /\ TuneReturned =>
          /\ best = 1
          /\ GridPart(self) = [trend |-> "add", seasonal |-> "add", damped |-> "True",
                               use_boxcox |-> "True", remove_bias |-> "True"]
          /\ self.params["tuned"] = TRUE

\* _tune returned after every candidate failed, on an untuned instance
C7_Witness ==
  /\ TuneReturned
  /\ AllFail(env[frame.y])
  /\ ~pre.params["tuned"]
  /\ \A i \in 1..N : scores[i] = Inf

\* _tune is over: it returned, or nanargmin raised out of it
TuneOver == TuneReturned \/ (pc = "idle" /\ frame.op = "fit" /\ frame.status = "ValueError")

\* C8 as claimed: across a _tune call only params changes.
C8_Original == TuneOver => Without(self, {"params"}) = Without(pre, {"params"})

\* C8 as amended: across a _tune call only params and period change; the
\* stored series, still the input series, and the fitted model do not.
C8_OnlyParamsAndPeriodChange ==
  TuneOver =>
     /\ Without(self, {"params", "period"}) = Without(pre, {"params", "period"})
     /\ self.y = frame.y
     /\ "period" \in DOMAIN self

\* _tune returned having changed the period and the params of an instance
\* that holds a fitted model
C8_Witness ==
  /\ TuneReturned
  /\ "model" \in DOMAIN pre
  /\ self.model = pre.model
  /\ self.period # pre.period
  /\ self.params # pre.params

C10_Original ==
  /\ TuneReturned =>
       /\ scores[best].k # "nan"
       /\ FirstMinimum(scores, best)
  /\ (frame.op = "fit" /\ AllNaN(env[frame.y])) =>
       /\ ~TuneReturned
       /\ pc = "idle" => (frame.status = "ValueError" /\ self.params = pre.params)
  /\ (frame.op = "fit" /\ frame.status = "ValueError") => AllNaN(env[frame.y])

\* C10 as amended: a NaN score is never selected while some score is a
\* finite number: the first minimum of the scores that are not NaN is; when
\* no score is finite and not all are NaN, the first candidate is selected
\* even if its score is NaN; when every score is NaN, nanargmin raises out
\* of _tune, and params, tuned included, is as before.
C10_NaNIgnoredAmongFinite ==
  /\ TuneReturned =>
       /\ IF \E i \in 1..N : scores[i].k = "num"
            THEN scores[best].k = "num" /\ FirstMinimum(scores, best)
            ELSE best = 1
       /\ GridPart(self) = params_permutations[best]
  /\ (frame.op = "fit" /\ AllNaN(env[frame.y])) =>
       /\ ~TuneReturned
       /\ pc = "idle" => (frame.status = "ValueError" /\ self.params = pre.params)
  /\ (frame.op = "fit" /\ frame.status = "ValueError") => AllNaN(env[frame.y])

\* every candidate but the last scored NaN and the last, with a finite
\* score, is selected
C10_Witness ==
  /\ TuneReturned
  /\ \A i \in 1..(N - 1) : scores[i] = NaN
  /\ scores[N].k = "num"
  /\ best = N

====
